---- MODULE Spec2Model ----
(***************************************************************************)
(* A model of the deterministic experiment assignment (src/ab), of the     *)
(* funnel-journey simulation engine (src/simulator) and of the validation  *)
(* of the exported dashboard data (ci/validate_analytics.py) of the        *)
(* analytics/AB platform.                                                  *)
(*                                                                         *)
(* Numbers.  Python floats are modelled in fixed point: a weight, a bucket *)
(* or a probability w is the integer w * Scale.  NaN is the one float that *)
(* has no such integer and that the comparisons of the code treat          *)
(* specially; it is the sentinel NaN below, and FAdd, FSub, FAbs, FLess    *)
(* and FGreater follow IEEE-754 on it (arithmetic propagates it, every     *)
(* ordered comparison with it is false).                                   *)
(*                                                                         *)
(* SHA-256 is modelled as a random oracle: sha is the table of the digests *)
(* computed so far (their first 8 bytes, as a bucket); the digest of a new *)
(* input is any bucket, the digest of a known input is the one in sha.     *)
(*                                                                         *)
(* random.Random(seed) is a function of the seed: two runs seeded alike    *)
(* read the same stream.  The two runs of generate_events of the model are *)
(* carried side by side, each with its own wall clock; every draw is made  *)
(* once and handed to both.  rng.randbytes(16) at stream position p of     *)
(* seed s is the token <<s, p>>, and MD5 is injective on these tokens.     *)
(* The one-user runs of SpecGates also keep, in draws, the value that      *)
(* rng.random() gave at each gate of the journey.                          *)
(***************************************************************************)
EXTENDS Integers, Sequences, FiniteSets, TLC

VARIABLES
    ctor,         \* the last Experiment(...) call: its arguments and its error
    experiment,   \* the Experiment value in use, or NoExperiment
    sha,          \* the SHA-256 oracle: hash input -> bucket
    calls,        \* the direct assign_variant calls made so far, with results
    config,       \* the SimulationConfig of the generate_events calls
    runs,         \* the state of each of the two runs of generate_events
    gapEnd,       \* the end of its range the time gaps of the journey take
    draws,        \* the values rng.random() gave at the gates of the journey
    data,         \* the exported dashboard data handed to validate
    errors        \* what validate returned

vars == <<ctor, experiment, sha, calls, config, runs, gapEnd, draws, data,
          errors>>

abVars == <<ctor, experiment, sha, calls>>
simVars == <<config, runs, gapEnd, draws>>
valVars == <<data, errors>>

---------------------------------------------------------------------------
(* Fixed point and IEEE-754 NaN *)

Scale == 10000
One == Scale
NaN == -999999

FAdd(a, b) == IF a = NaN \/ b = NaN THEN NaN ELSE a + b
FSub(a, b) == IF a = NaN \/ b = NaN THEN NaN ELSE a - b
FAbs(a) == IF a = NaN THEN NaN ELSE IF a < 0 THEN -a ELSE a
FLess(a, b) == a # NaN /\ b # NaN /\ a < b
FGreater(a, b) == a # NaN /\ b # NaN /\ a > b
FMin(a, b) == IF b < a THEN b ELSE a

---------------------------------------------------------------------------
(* src/ab/experiment.py *)

\* the 0.001 of abs(total - 1.0) > 0.001
Tolerance == 10

NoExperiment == [experiment_id |-> "", variants |-> <<>>]

Variant(name, weight) == [name |-> name, weight |-> weight]

RECURSIVE SumWeights(_)
\* sum(v.weight for v in self.variants): left to right, from 0
SumWeights(variants) ==
    IF variants = <<>> THEN 0
    ELSE FAdd(SumWeights(SubSeq(variants, 1, Len(variants) - 1)),
              variants[Len(variants)].weight)

Names(variants) == {variants[i].name : i \in 1..Len(variants)}

ErrWeights == "Variant weights must sum to 1.0"
ErrCount == "Experiment must have at least 2 variants"
ErrNames == "Variant names must be unique"

\* __post_init__ with the count of the variants checked first
PostInitCountFirst(variants) ==
    LET total == SumWeights(variants) IN
    IF Len(variants) < 2 THEN ErrCount
    ELSE IF FGreater(FAbs(FSub(total, One)), Tolerance) THEN ErrWeights
    ELSE IF Len(variants) # Cardinality(Names(variants)) THEN ErrNames
    ELSE ""

\* the error Experiment.__post_init__ raises, "" when it raises none
PostInit(variants) ==
    LET total == SumWeights(variants) IN
    IF FGreater(FAbs(FSub(total, One)), Tolerance) THEN ErrWeights
    ELSE IF Len(variants) < 2 THEN ErrCount
    ELSE IF Len(variants) # Cardinality(Names(variants)) THEN ErrNames
    ELSE ""

\* Experiment(experiment_id=..., variants=...): the value, or none on an error
NewExperiment(experiment_id, variants) ==
    IF PostInit(variants) = ""
    THEN [experiment_id |-> experiment_id, variants |-> variants]
    ELSE NoExperiment

PRICING_PAGE_EXPERIMENT ==
    NewExperiment("exp_pricing_page_v1",
                  <<Variant("control", 5000), Variant("treatment", 5000)>>)

---------------------------------------------------------------------------
(* src/ab/assignment.py *)

\* f"{experiment.experiment_id}:{user_id}"
HashInput(experiment_id, user_id) == experiment_id \o ":" \o user_id

\* int.from_bytes(hash_bytes[:8], "big") / (2**64): the quotient is rounded to
\* a double, and the digests from 2**64 - 2**10 on round to 1.0.
Buckets == {0, 4996, 4999, 5000, 9992, 9999, One}

\* a digest that is salted anew at every call
Sha256Salted(oracle, key, b) == TRUE

\* hashlib.sha256(hash_input.encode()).digest() gives bucket b: the digest
\* recorded for the input if there is one, any digest otherwise
Sha256(oracle, key, b) ==
    key \in DOMAIN oracle => b = oracle[key]

Bucket(oracle, experiment_id, user_id) ==
    oracle[HashInput(experiment_id, user_id)]

IndexError == "IndexError: list index out of range"
None == "None"

RECURSIVE Walk(_, _, _, _)
RECURSIVE WalkNoFallback(_, _, _, _)
RECURSIVE WalkInclusive(_, _, _, _)

\* the loop without the fallback return: the function falls off its end
WalkNoFallback(variants, i, cumulative, bucket) ==
    IF i > Len(variants) THEN None
    ELSE LET c == FAdd(cumulative, variants[i].weight) IN
         IF FLess(bucket, c) THEN variants[i].name
         ELSE WalkNoFallback(variants, i + 1, c, bucket)

\* the loop with bucket <= cumulative
WalkInclusive(variants, i, cumulative, bucket) ==
    IF i > Len(variants)
    THEN IF variants = <<>> THEN IndexError ELSE variants[Len(variants)].name
    ELSE LET c == FAdd(cumulative, variants[i].weight) IN
         IF FLess(bucket, c) \/ bucket = c THEN variants[i].name
         ELSE WalkInclusive(variants, i + 1, c, bucket)

\* the loop over experiment.variants from the i-th on, and the fallback
Walk(variants, i, cumulative, bucket) ==
    IF i > Len(variants)
    THEN IF variants = <<>> THEN IndexError ELSE variants[Len(variants)].name
    ELSE LET c == FAdd(cumulative, variants[i].weight) IN
         IF FLess(bucket, c) THEN variants[i].name
         ELSE Walk(variants, i + 1, c, bucket)

AssignVariant(exp, user_id, oracle) ==
    Walk(exp.variants, 1, 0, Bucket(oracle, exp.experiment_id, user_id))

---------------------------------------------------------------------------
(* The callers of src/ab: Experiment(...) and assign_variant(...) *)

MaxVariants == 3
MaxCalls == 2

VariantNames == {"control", "treatment", "holdout"}
WeightValues == {NaN, -5000, -4, 0, 4996, 5000, One, 15000}
DirectUsers == {"user_00000", "user_001"}

ArgVariants ==
    UNION {[1..n -> [name : VariantNames, weight : WeightValues]] :
           n \in 0..MaxVariants}

NotCalled == [called |-> FALSE, variants |-> <<>>, raised |-> ""]

\* Experiment(experiment_id="exp_a", name=..., variants=variants)
Construct ==
    /\ ~ctor.called
    /\ \E variants \in ArgVariants :
          /\ ctor' = [called |-> TRUE, variants |-> variants,
                      raised |-> PostInit(variants)]
          /\ experiment' = NewExperiment("exp_a", variants)
    /\ UNCHANGED <<sha, calls>>
    /\ UNCHANGED simVars
    /\ UNCHANGED valVars

CallsOf(experiment_id, user_id) ==
    {c \in calls : c.experiment_id = experiment_id /\ c.user_id = user_id}

\* assign_variant(experiment, user_id), called directly
AssignCall ==
    /\ experiment # NoExperiment
    /\ \E user_id \in DirectUsers :
          LET eid == experiment.experiment_id
              key == HashInput(eid, user_id)
              nth == Cardinality(CallsOf(eid, user_id)) + 1
          IN /\ nth <= MaxCalls
             /\ \E b \in Buckets :
                   /\ Sha256(sha, key, b)
                   /\ sha' = (key :> b) @@ sha
                   /\ calls' = calls \cup
                        {[experiment_id |-> eid, user_id |-> user_id,
                          nth |-> nth, bucket |-> b,
                          variant |-> AssignVariant(experiment, user_id, sha')]}
    /\ UNCHANGED <<ctor, experiment>>
    /\ UNCHANGED simVars
    /\ UNCHANGED valVars

---------------------------------------------------------------------------
(* src/simulator/config.py and the inputs of generate_events *)

MaxUsers == 2

\* SimulationConfig(days=1, ...): the default seed and funnel probabilities,
\* one page view and one click per user, one page, one target, one plan
BaseConfig ==
    [num_users |-> 0, days |-> 1, seed |-> 42,
     prob_signup |-> 3000, prob_onboarding |-> 7000,
     prob_purchase |-> 1500, treatment_uplift |-> 800,
     min_page_views |-> 1, max_page_views |-> 1,
     min_clicks |-> 1, max_clicks |-> 1,
     pages |-> <<"/pricing">>,
     click_targets |-> <<"cta_hero">>,
     plans |-> <<"starter">>,
     plan_prices |-> <<29>>,
     plan_weights |-> <<One>>]

\* n users with the browsing and the plans of BaseConfig
LeanConfig(n) == [BaseConfig EXCEPT !.num_users = n]

\* n users with one or two page views over two pages, no click or one, and
\* the default plans
RichConfig(n) ==
    [BaseConfig EXCEPT !.num_users = n,
                       !.max_page_views = 2,
                       !.min_clicks = 0,
                       !.pages = <<"/", "/pricing">>,
                       !.plans = <<"starter", "pro", "enterprise">>,
                       !.plan_prices = <<29, 99, 299>>,
                       !.plan_weights = <<6000, 3000, 1000>>]

\* n users none of whom signs up
NoSignupConfig(n) == [LeanConfig(n) EXCEPT !.prob_signup = 0]

\* one user with the default window and browsing bounds: 14 days, 1 to 8
\* page views, 0 to 5 clicks
DefaultBrowsingConfig ==
    [BaseConfig EXCEPT !.num_users = 1,
                       !.days = 14,
                       !.max_page_views = 8,
                       !.min_clicks = 0,
                       !.max_clicks = 5]

\* n users with the browsing and the plans of BaseConfig; beyond two users
\* the window has no days (days=0), so that every user arrives at its start
\* and the journeys differ by their gaps alone
PlainConfig(n) ==
    IF n <= 2 THEN LeanConfig(n) ELSE [LeanConfig(n) EXCEPT !.days = 0]

\* the configs of the runs: the varied browsing for up to one user, the
\* plain one for more, the most users with prob_signup = 0.0, and one user
\* with the default browsing bounds
Configs ==
    {RichConfig(n) : n \in 0..1} \cup {PlainConfig(n) : n \in 2..MaxUsers}
    \cup {NoSignupConfig(MaxUsers), DefaultBrowsingConfig}

\* the config base with the gate probabilities p = <<prob_signup,
\* prob_onboarding, prob_purchase, treatment_uplift>>
GateConfig(base, p) ==
    [base EXCEPT !.prob_signup = p[1],
                 !.prob_onboarding = p[2],
                 !.prob_purchase = p[3],
                 !.treatment_uplift = p[4]]

\* gate probabilities at 0.0 and at 1.0, and an uplift that passes 1.0
GateProbabilities ==
    {<<0, 7000, 1500, 800>>,
     <<One, 0, 1500, 800>>,
     <<One, One, 0, 800>>,
     <<One, One, 0, 12000>>,
     <<One, One, One, 800>>,
     <<One, 7000, 1500, 12000>>,
     <<3000, One, 9500, 800>>}

\* the configs of the one-user runs whose gate draws are kept: the default
\* probabilities with the varied browsing, the others with the plain one
GateConfigs ==
    {RichConfig(1)} \cup
    {GateConfig(LeanConfig(1), p) : p \in GateProbabilities}

Runs == {1, 2}

\* datetime.now(timezone.utc), in seconds: the second run starts 5000 s
\* after the first
Now0 == 1000000
Clock == [k \in Runs |-> Now0 + (k - 1) * 5000]

\* timedelta(days=1), in seconds
DaySeconds == 86400

\* the ends of the range of a time gap
GapEnds == {"lo", "hi"}

---------------------------------------------------------------------------
(* random.Random: the draws *)

\* rng.randint(lo, hi): the draws explored are the two ends of the range
RandInt(lo, hi) == {lo, hi}

\* a time gap drawn from 0 on
GapFromZero(lo, hi, end) == IF end = "lo" THEN 0 ELSE hi

\* rng.randint(lo, hi) for a time gap: the end the journey's gaps take
Gap(lo, hi, end) == IF end = "lo" THEN lo ELSE hi

\* rng.random(): the draws explored, around the funnel probabilities
RandomValues == {0, 1500, 2300, 3000, 7000, 9999}

\* rng.choice(seq)
Choice(seq) == {seq[j] : j \in 1..Len(seq)}

\* rng.choices(range(len(weights)), weights=weights, k=1)[0]
Choices(weights) == {j \in 1..Len(weights) : weights[j] > 0}

\* the generator after one more draw
Drawn(rng) == [rng EXCEPT !.pos = @ + 1]

\* rng.randbytes(16)
RandBytes(rng) == <<rng.seed, rng.pos>>

\* hashlib.md5(...).hexdigest()
Md5(bytes) == <<"md5", bytes>>

---------------------------------------------------------------------------
(* src/simulator/engine.py *)

EventType == {"PAGE_VIEW", "CLICK", "EXPERIMENT_ASSIGNMENT", "SIGNUP", "PURCHASE"}

DigitStr(d) ==
    CASE d = 0 -> "0" [] d = 1 -> "1" [] d = 2 -> "2" [] d = 3 -> "3"
      [] d = 4 -> "4" [] d = 5 -> "5" [] d = 6 -> "6" [] d = 7 -> "7"
      [] d = 8 -> "8" [] d = 9 -> "9"

RECURSIVE Decimal(_)
Decimal(n) ==
    IF n < 10 THEN DigitStr(n) ELSE Decimal(n \div 10) \o DigitStr(n % 10)

\* f"{i:05d}"
ZeroPad5(i) ==
    IF i >= 10000 THEN Decimal(i)
    ELSE IF i >= 1000 THEN "0" \o Decimal(i)
    ELSE IF i >= 100 THEN "00" \o Decimal(i)
    ELSE IF i >= 10 THEN "000" \o Decimal(i)
    ELSE "0000" \o Decimal(i)

\* f"user_{i:05d}"
UserId(i) == "user_" \o ZeroPad5(i)

\* an event whose id is derived from its user and its timestamp
MakeEventFromTime(user_id, event_type, timestamp, rng, properties) ==
    [event_id |-> Md5(<<user_id, timestamp>>), user_id |-> user_id,
     event_type |-> event_type, timestamp |-> timestamp,
     properties |-> properties]

\* an event stamped with the day of its timestamp
MakeEventDayStamp(user_id, event_type, timestamp, rng, properties) ==
    [event_id |-> Md5(RandBytes(rng)), user_id |-> user_id,
     event_type |-> event_type,
     timestamp |-> timestamp - (timestamp % DaySeconds),
     properties |-> properties]

\* an event whose id is derived from its content
MakeEventFromContent(user_id, event_type, timestamp, rng, properties) ==
    [event_id |-> Md5(<<user_id, event_type>>), user_id |-> user_id,
     event_type |-> event_type, timestamp |-> timestamp,
     properties |-> properties]

MakeEvent(user_id, event_type, timestamp, rng, properties) ==
    [event_id |-> Md5(RandBytes(rng)), user_id |-> user_id,
     event_type |-> event_type, timestamp |-> timestamp,
     properties |-> properties]

\* events.append(_make_event(user_id, event_type, current_time, rng, ...))
Emit(r, event_type, properties) ==
    [r EXCEPT !.events = Append(@, MakeEvent(r.user_id, event_type,
                                             r.current_time, r.rng, properties)),
              !.rng = Drawn(@)]

\* current_time += timedelta(seconds=rng.randint(...))
Tick(r, seconds) ==
    [r EXCEPT !.current_time = @ + seconds, !.rng = Drawn(@)]

\* a draw that leaves the clock and the events alone
Draw(r) == [r EXCEPT !.rng = Drawn(@)]

RECURSIVE PageViewLoop(_, _, _)
\* for _ in range(num_pages): choice, event, gap
PageViewLoop(r, pages, gap) ==
    IF pages = <<>> THEN r
    ELSE PageViewLoop(
            Tick(Emit(Draw(r), "PAGE_VIEW", [page |-> Head(pages)]), gap),
            Tail(pages), gap)

RECURSIVE ClickLoop(_, _, _)
\* for _ in range(num_clicks): choice, event, gap
ClickLoop(r, targets, gap) ==
    IF targets = <<>> THEN r
    ELSE ClickLoop(
            Tick(Emit(Draw(r), "CLICK", [target |-> Head(targets)]), gap),
            Tail(targets), gap)

\* the body of the dashboard loop run once, whatever n
DashboardLoopOnce(r, n, gap) ==
    Tick(Emit(r, "PAGE_VIEW", [page |-> "/dashboard"]), gap)

RECURSIVE DashboardLoop(_, _, _)
\* for _ in range(rng.randint(2, 5)): event, gap
DashboardLoop(r, n, gap) ==
    IF n = 0 THEN r
    ELSE DashboardLoop(
            Tick(Emit(r, "PAGE_VIEW", [page |-> "/dashboard"]), gap),
            n - 1, gap)

\* the journey returns its events; the driver extends all_events, next user
ReturnEvents(r, cfg) ==
    [r EXCEPT !.all_events = @ \o r.events,
              !.events = <<>>,
              !.i = @ + 1,
              !.pc = IF r.i + 1 < cfg.num_users THEN "browse" ELSE "sort"]

\* a journey that drops its events when the user drops off
ReturnNothing(r, cfg) ==
    [r EXCEPT !.events = <<>>,
              !.i = @ + 1,
              !.pc = IF r.i + 1 < cfg.num_users THEN "browse" ELSE "sort"]

\* the window ending at the time of the run
StartStepNoMargin(r, cfg, now) ==
    [r EXCEPT !.now = now,
              !.rng = [seed |-> cfg.seed, pos |-> 0],
              !.all_events = <<>>,
              !.start_time = now - cfg.days * DaySeconds,
              !.i = 0,
              !.pc = IF cfg.num_users > 0 THEN "browse" ELSE "sort"]

\* generate_events up to the loop over the users
StartStep(r, cfg, now) ==
    [r EXCEPT !.now = now,
              !.rng = [seed |-> cfg.seed, pos |-> 0],
              !.all_events = <<>>,
              !.start_time = (now - DaySeconds) - cfg.days * DaySeconds,
              !.i = 0,
              !.pc = IF cfg.num_users > 0 THEN "browse" ELSE "sort"]

\* a journey that starts on a stream of its own, seeded like the shared one
BrowseStepReseeds(r, arrival, pages, targets, end) ==
    LET r0 == [r EXCEPT !.user_id = UserId(r.i),
                        !.events = <<>>,
                        !.variant = None,
                        !.current_time = r.start_time + arrival,
                        !.rng = Drawn([seed |-> r.rng.seed, pos |-> 0])]
        r1 == PageViewLoop(Draw(r0), pages, Gap(5, 120, end))
        r2 == ClickLoop(Draw(r1), targets, Gap(2, 30, end))
    IN [r2 EXCEPT !.pc = "assign"]

\* _simulate_user_journey: arrival, page views, clicks
BrowseStep(r, arrival, pages, targets, end) ==
    LET r0 == [r EXCEPT !.user_id = UserId(r.i),
                        !.events = <<>>,
                        !.variant = None,
                        !.current_time = r.start_time + arrival,
                        !.rng = Drawn(@)]
        r1 == PageViewLoop(Draw(r0), pages, Gap(5, 120, end))
        r2 == ClickLoop(Draw(r1), targets, Gap(2, 30, end))
    IN [r2 EXCEPT !.pc = "assign"]

\* the assignment event emitted whether or not there is an experiment
AssignStepAlways(r, exp, oracle, end) ==
    [Emit(Tick(r, Gap(1, 10, end)), "EXPERIMENT_ASSIGNMENT",
          [experiment_id |-> exp.experiment_id, variant |-> None])
     EXCEPT !.pc = "signup"]

\* an assignment that takes a draw of the shared stream
AssignStepDraws(r, exp, oracle, end) ==
    IF exp = NoExperiment THEN [r EXCEPT !.pc = "signup"]
    ELSE LET variant == AssignVariant(exp, r.user_id, oracle)
             r0 == Tick(Draw([r EXCEPT !.variant = variant]), Gap(1, 10, end))
         IN [Emit(r0, "EXPERIMENT_ASSIGNMENT",
                  [experiment_id |-> exp.experiment_id, variant |-> variant])
             EXCEPT !.pc = "signup"]

\* _simulate_user_journey: experiment assignment
AssignStep(r, exp, oracle, end) ==
    IF exp = NoExperiment THEN [r EXCEPT !.pc = "signup"]
    ELSE LET variant == AssignVariant(exp, r.user_id, oracle)
             r0 == Tick([r EXCEPT !.variant = variant], Gap(1, 10, end))
         IN [Emit(r0, "EXPERIMENT_ASSIGNMENT",
                  [experiment_id |-> exp.experiment_id, variant |-> variant])
             EXCEPT !.pc = "signup"]

\* the signup gate returning an empty list on a drop-off
SignupStepDropsEvents(r, cfg, u, end) ==
    LET r0 == Draw(r) IN
    IF u >= cfg.prob_signup THEN ReturnNothing(r0, cfg)
    ELSE [Emit(Tick(r0, Gap(10, 300, end)), "SIGNUP", [source |-> "web"])
          EXCEPT !.pc = "onboarding"]

\* the signup gate passed without a SIGNUP event
SignupStepNoEvent(r, cfg, u, end) ==
    LET r0 == Draw(r) IN
    IF u >= cfg.prob_signup THEN ReturnEvents(r0, cfg)
    ELSE [Draw(Tick(r0, Gap(10, 300, end))) EXCEPT !.pc = "onboarding"]

\* the signup gate with rng.random() > config.prob_signup
SignupStepInclusive(r, cfg, u, end) ==
    LET r0 == Draw(r) IN
    IF u > cfg.prob_signup THEN ReturnEvents(r0, cfg)
    ELSE [Emit(Tick(r0, Gap(10, 300, end)), "SIGNUP", [source |-> "web"])
          EXCEPT !.pc = "onboarding"]

\* _simulate_user_journey: the signup gate
SignupStep(r, cfg, u, end) ==
    LET r0 == Draw(r) IN
    IF u >= cfg.prob_signup THEN ReturnEvents(r0, cfg)
    ELSE [Emit(Tick(r0, Gap(10, 300, end)), "SIGNUP", [source |-> "web"])
          EXCEPT !.pc = "onboarding"]

\* the onboarding gate checked after the first dashboard page view
OnboardingStepLateReturn(r, cfg, u, n, end) ==
    LET r0 == Draw(r)
        r1 == Draw(Tick(r0, Gap(60, 3600, end)))
    IN IF u >= cfg.prob_onboarding
       THEN ReturnEvents(DashboardLoop(r1, 1, Gap(10, 180, end)), cfg)
       ELSE [DashboardLoop(r1, n, Gap(10, 180, end)) EXCEPT !.pc = "purchase"]

\* _simulate_user_journey: the onboarding gate and the dashboard page views
OnboardingStep(r, cfg, u, n, end) ==
    LET r0 == Draw(r) IN
    IF u >= cfg.prob_onboarding THEN ReturnEvents(r0, cfg)
    ELSE [DashboardLoop(Draw(Tick(r0, Gap(60, 3600, end))), n,
                        Gap(10, 180, end))
          EXCEPT !.pc = "purchase"]

\* purchase_prob without the min(..., 1.0)
PurchaseProbUncapped(cfg, variant) ==
    IF variant = "treatment"
    THEN cfg.prob_purchase + cfg.treatment_uplift
    ELSE cfg.prob_purchase

\* purchase_prob
PurchaseProb(cfg, variant) ==
    IF variant = "treatment"
    THEN FMin(cfg.prob_purchase + cfg.treatment_uplift, One)
    ELSE cfg.prob_purchase

\* _simulate_user_journey: the purchase gate
PurchaseStep(r, cfg, u, plan_idx, end) ==
    LET r0 == Draw(r) IN
    IF u >= PurchaseProb(cfg, r.variant) THEN ReturnEvents(r0, cfg)
    ELSE ReturnEvents(
            Emit(Draw(Tick(r0, Gap(30, 600, end))), "PURCHASE",
                 [plan |-> cfg.plans[plan_idx],
                  amount |-> cfg.plan_prices[plan_idx]]),
            cfg)

\* e goes before the events of its own timestamp: an unstable sort
InsertBeforeEquals(sorted, e) ==
    LET k == Cardinality({j \in 1..Len(sorted) :
                            sorted[j].timestamp < e.timestamp})
    IN SubSeq(sorted, 1, k) \o <<e>> \o SubSeq(sorted, k + 1, Len(sorted))

\* sorted: e goes after the events that are not later than it
Insert(sorted, e) ==
    LET k == Cardinality({j \in 1..Len(sorted) :
                            sorted[j].timestamp <= e.timestamp})
    IN SubSeq(sorted, 1, k) \o <<e>> \o SubSeq(sorted, k + 1, Len(sorted))

\* the events returned as they were generated
Unsorted(events) == events

RECURSIVE SortedByTimestamp(_)
\* all_events.sort(key=lambda e: e.timestamp): a stable sort
SortedByTimestamp(events) ==
    IF events = <<>> THEN <<>>
    ELSE Insert(SortedByTimestamp(SubSeq(events, 1, Len(events) - 1)),
                events[Len(events)])

\* generate_events: the sort and the return
SortStep(r) ==
    [r EXCEPT !.all_events = SortedByTimestamp(@), !.pc = "done"]

---------------------------------------------------------------------------
(* src/ci/validate_analytics.py *)

REQUIRED_TOP_KEYS == {"funnel", "experiments", "event_summary"}
FUNNEL_STEPS == <<"page_view", "signup", "purchase">>
ANALYSIS_FIELDS ==
    {"absolute_uplift", "relative_uplift", "p_value", "ci_lower", "ci_upper",
     "is_significant", "decision", "reason"}

\* the dashboard data: keys are the top-level keys it has; the value of a
\* key it lacks is never read
NoData == [keys |-> {}, event_summary |-> <<>>, funnel |-> <<>>,
           experiments |-> <<>>]

\* validate has not returned
NotValidated == [returned |-> FALSE, list |-> <<>>]

RECURSIVE Concat(_)
\* the lists of a list, one after another
Concat(lists) ==
    IF lists = <<>> THEN <<>> ELSE Head(lists) \o Concat(Tail(lists))

\* for key in REQUIRED_TOP_KEYS: if key not in data: errors.append(...)
MissingKeyErrors(d, order) ==
    Concat([j \in 1..Len(order) |->
              IF order[j] \in d.keys THEN <<>>
              ELSE <<<<"Missing top-level key", order[j]>>>>])

\* the event summary block
SummaryErrors(summary) ==
    IF summary = <<>> THEN <<<<"event_summary is empty">>>>
    ELSE LET event_types == {summary[j].event_type : j \in 1..Len(summary)}
         IN Concat([j \in 1..Len(FUNNEL_STEPS) |->
                      IF FUNNEL_STEPS[j] \in event_types THEN <<>>
                      ELSE <<<<"event_summary missing required type",
                               FUNNEL_STEPS[j]>>>>])
            \o Concat([j \in 1..Len(summary) |->
                         IF summary[j].count <= 0
                         THEN <<<<"event_summary has count <= 0",
                                  summary[j].event_type>>>>
                         ELSE <<>>])

\* the error of the funnel steps i-1 and i (i counted from 1)
NotDecreasing(funnel, i) ==
    <<"Funnel not monotonically decreasing",
      funnel[i - 1].step, funnel[i - 1].users, funnel[i].step, funnel[i].users>>

\* the funnel block with users[i] >= users[i - 1]
FunnelErrorsInclusive(funnel) ==
    IF funnel = <<>> THEN <<<<"funnel is empty">>>>
    ELSE LET steps == [j \in 1..Len(funnel) |-> funnel[j].step]
         IN (IF steps # FUNNEL_STEPS
             THEN <<<<"Funnel steps != expected", steps>>>> ELSE <<>>)
            \o Concat([j \in 1..(Len(funnel) - 1) |->
                         IF funnel[j + 1].users >= funnel[j].users
                         THEN <<NotDecreasing(funnel, j + 1)>> ELSE <<>>])
            \o Concat([j \in 1..Len(funnel) |->
                         IF funnel[j].conversion_rate_pct < 0
                            \/ funnel[j].conversion_rate_pct > 100
                         THEN <<<<"Funnel step has invalid rate",
                                  funnel[j].step>>>>
                         ELSE <<>>])

\* the funnel block
FunnelErrors(funnel) ==
    IF funnel = <<>> THEN <<<<"funnel is empty">>>>
    ELSE LET steps == [j \in 1..Len(funnel) |-> funnel[j].step]
         IN (IF steps # FUNNEL_STEPS
             THEN <<<<"Funnel steps != expected", steps>>>> ELSE <<>>)
            \o Concat([j \in 1..(Len(funnel) - 1) |->
                         IF funnel[j + 1].users > funnel[j].users
                         THEN <<NotDecreasing(funnel, j + 1)>> ELSE <<>>])
            \o Concat([j \in 1..Len(funnel) |->
                         IF funnel[j].conversion_rate_pct < 0
                            \/ funnel[j].conversion_rate_pct > 100
                         THEN <<<<"Funnel step has invalid rate",
                                  funnel[j].step>>>>
                         ELSE <<>>])

\* exp.get("analysis") is None
NoAnalysis ==
    [given |-> FALSE, fields |-> {}, p_value_given |-> FALSE, p_value |-> 0,
     decision |-> None]

\* the checks of the analysis of one experiment; analysis.fields are the keys
\* it has, p_value_given says that analysis.get("p_value") is not None
AnalysisErrors(exp_id, analysis) ==
    (IF ANALYSIS_FIELDS \ analysis.fields # {}
     THEN <<<<"Experiment analysis missing fields", exp_id,
              ANALYSIS_FIELDS \ analysis.fields>>>>
     ELSE <<>>)
    \o (IF analysis.p_value_given
           /\ (analysis.p_value < 0 \/ analysis.p_value > One)
        THEN <<<<"Experiment p-value out of range", exp_id>>>> ELSE <<>>)
    \o (IF analysis.decision \notin {"SHIP", "DO NOT SHIP", "INCONCLUSIVE"}
        THEN <<<<"Experiment invalid decision", exp_id, analysis.decision>>>>
        ELSE <<>>)

\* the body of the loop over the experiments; a missing variants list is the
\* empty one, a missing analysis is NoAnalysis
ExperimentErrors(exp) ==
    LET exp_id == exp.experiment_id
        variant_names == {exp.variants[j].name : j \in 1..Len(exp.variants)}
    IN IF exp.variants = <<>>
       THEN <<<<"Experiment has no variants", exp_id>>>>
       ELSE (IF "control" \notin variant_names
             THEN <<<<"Experiment missing 'control' variant", exp_id>>>>
             ELSE <<>>)
            \o (IF "treatment" \notin variant_names
                THEN <<<<"Experiment missing 'treatment' variant", exp_id>>>>
                ELSE <<>>)
            \o Concat([j \in 1..Len(exp.variants) |->
                         IF exp.variants[j].users <= 0
                         THEN <<<<"Experiment variant has 0 users", exp_id,
                                  exp.variants[j].name>>>>
                         ELSE <<>>])
            \o (IF ~exp.analysis.given
                THEN <<<<"Experiment missing analysis results", exp_id>>>>
                ELSE AnalysisErrors(exp_id, exp.analysis))

\* the experiments block
ExperimentsErrors(experiments) ==
    IF experiments = <<>> THEN <<<<"experiments is empty">>>>
    ELSE Concat([j \in 1..Len(experiments) |-> ExperimentErrors(experiments[j])])

\* validate going on to the blocks of the keys that are there
ValidateNoEarlyReturn(d, order) ==
    MissingKeyErrors(d, order)
    \o (IF "event_summary" \in d.keys
        THEN SummaryErrors(d.event_summary) ELSE <<>>)
    \o (IF "funnel" \in d.keys THEN FunnelErrors(d.funnel) ELSE <<>>)
    \o (IF "experiments" \in d.keys
        THEN ExperimentsErrors(d.experiments) ELSE <<>>)

\* validate(data); order is the order in which the set REQUIRED_TOP_KEYS is
\* iterated
Validate(d, order) ==
    LET missing == MissingKeyErrors(d, order) IN
    IF missing # <<>> THEN missing
    ELSE SummaryErrors(d.event_summary)
         \o FunnelErrors(d.funnel)
         \o ExperimentsErrors(d.experiments)

---------------------------------------------------------------------------
(* The two runs of generate_events(config, experiment), side by side *)

\* the gate draws of a run that keeps none, and of one that keeps them
NotTraced == [traced |-> FALSE, seq |-> <<>>]
Traced == [traced |-> TRUE, seq |-> <<>>]

\* a new journey: no gate draw yet
NoDraws(d) == [d EXCEPT !.seq = <<>>]

\* rng.random() gave u at a gate
Drew(d, u) == IF d.traced THEN [d EXCEPT !.seq = Append(@, u)] ELSE d

Idle ==
    [pc |-> "start", now |-> 0, start_time |-> 0, i |-> 0,
     all_events |-> <<>>, rng |-> [seed |-> 0, pos |-> 0],
     user_id |-> "", events |-> <<>>, current_time |-> 0, variant |-> None]

AllAt(pc) == \A k \in Runs : runs[k].pc = pc

StartRun ==
    /\ AllAt("start")
    /\ runs' = [k \in Runs |-> StartStep(runs[k], config, Clock[k])]
    /\ UNCHANGED <<config, gapEnd, draws>>
    /\ UNCHANGED abVars
    /\ UNCHANGED valVars

BrowseStage ==
    /\ AllAt("browse")
    /\ \E arrival \in RandInt(0, config.days * DaySeconds),
          num_pages \in RandInt(config.min_page_views, config.max_page_views),
          num_clicks \in RandInt(config.min_clicks, config.max_clicks),
          end \in GapEnds :
          \E pages \in [1..num_pages -> Choice(config.pages)],
             targets \in [1..num_clicks -> Choice(config.click_targets)] :
             /\ runs' = [k \in Runs |->
                           BrowseStep(runs[k], arrival, pages, targets, end)]
             /\ gapEnd' = end
    /\ draws' = NoDraws(draws)
    /\ UNCHANGED config
    /\ UNCHANGED abVars
    /\ UNCHANGED valVars

\* the digests of the hash inputs of the runs' users that are explored
SimBuckets == {4999, 5000}

AssignStage ==
    /\ AllAt("assign")
    /\ IF experiment = NoExperiment
       THEN /\ runs' = [k \in Runs |->
                          AssignStep(runs[k], experiment, sha, gapEnd)]
            /\ sha' = sha
       ELSE LET key == HashInput(experiment.experiment_id, runs[1].user_id)
            IN \E b \in SimBuckets :
                  /\ Sha256(sha, key, b)
                  /\ sha' = (key :> b) @@ sha
                  /\ runs' = [k \in Runs |->
                                AssignStep(runs[k], experiment, sha', gapEnd)]
    /\ UNCHANGED <<config, gapEnd, draws>>
    /\ UNCHANGED <<ctor, experiment, calls>>
    /\ UNCHANGED valVars

SignupGate ==
    /\ AllAt("signup")
    /\ \E u \in RandomValues :
          /\ runs' = [k \in Runs |-> SignupStep(runs[k], config, u, gapEnd)]
          /\ draws' = Drew(draws, u)
    /\ UNCHANGED <<config, gapEnd>>
    /\ UNCHANGED abVars
    /\ UNCHANGED valVars

OnboardingGate ==
    /\ AllAt("onboarding")
    /\ \E u \in RandomValues, n \in RandInt(2, 5) :
          /\ runs' = [k \in Runs |-> OnboardingStep(runs[k], config, u, n, gapEnd)]
          /\ draws' = Drew(draws, u)
    /\ UNCHANGED <<config, gapEnd>>
    /\ UNCHANGED abVars
    /\ UNCHANGED valVars

PurchaseGate ==
    /\ AllAt("purchase")
    /\ \E u \in RandomValues, plan_idx \in Choices(config.plan_weights) :
          /\ runs' = [k \in Runs |->
                        PurchaseStep(runs[k], config, u, plan_idx, gapEnd)]
          /\ draws' = Drew(draws, u)
    /\ UNCHANGED <<config, gapEnd>>
    /\ UNCHANGED abVars
    /\ UNCHANGED valVars

SortEvents ==
    /\ AllAt("sort")
    /\ runs' = [k \in Runs |-> SortStep(runs[k])]
    /\ UNCHANGED <<config, gapEnd, draws>>
    /\ UNCHANGED abVars
    /\ UNCHANGED valVars

Init ==
    /\ experiment \in {NoExperiment, PRICING_PAGE_EXPERIMENT}
    /\ ctor = IF experiment = NoExperiment THEN NotCalled
              ELSE [called |-> TRUE, variants |-> experiment.variants,
                    raised |-> ""]
    /\ sha = <<>>
    /\ calls = {}
    /\ config \in Configs
    /\ runs = [k \in Runs |-> Idle]
    /\ gapEnd = "lo"
    /\ draws = NotTraced
    /\ data = NoData
    /\ errors = NotValidated

Next ==
    \/ StartRun
    \/ BrowseStage
    \/ AssignStage
    \/ SignupGate
    \/ OnboardingGate
    \/ PurchaseGate
    \/ SortEvents

Spec == Init /\ [][Next]_vars

---------------------------------------------------------------------------
(* generate_events for one user, the draws at the gates kept *)

InitGates ==
    /\ experiment \in {NoExperiment, PRICING_PAGE_EXPERIMENT}
    /\ ctor = IF experiment = NoExperiment THEN NotCalled
              ELSE [called |-> TRUE, variants |-> experiment.variants,
                    raised |-> ""]
    /\ sha = <<>>
    /\ calls = {}
    /\ config \in GateConfigs
    /\ runs = [k \in Runs |-> Idle]
    /\ gapEnd = "lo"
    /\ draws = Traced
    /\ data = NoData
    /\ errors = NotValidated

SpecGates == InitGates /\ [][Next]_vars

---------------------------------------------------------------------------
(* The caller of validate *)

MaxFunnelSteps == 3

\* the user counts of a funnel step
UserCounts == {1, 2}

\* funnels of up to MaxFunnelSteps steps: the steps in the expected order or
\* the first step named as the last one, every user count, the rates valid or
\* the first one beyond 100
Funnels ==
    UNION {
      {[j \in 1..n |->
          [step |-> IF swapped /\ j = 1
                    THEN FUNNEL_STEPS[Len(FUNNEL_STEPS)]
                    ELSE FUNNEL_STEPS[((j - 1) % Len(FUNNEL_STEPS)) + 1],
           users |-> users[j],
           conversion_rate_pct |-> IF bad_rate /\ j = 1 THEN 101 ELSE 50]] :
         users \in [1..n -> UserCounts], swapped \in BOOLEAN,
         bad_rate \in BOOLEAN} :
      n \in 0..MaxFunnelSteps}

Summaries ==
    {<<>>,
     <<[event_type |-> "page_view", count |-> 1000],
       [event_type |-> "signup", count |-> 200],
       [event_type |-> "purchase", count |-> 50]>>,
     <<[event_type |-> "page_view", count |-> 0]>>}

GoodAnalysis ==
    [given |-> TRUE, fields |-> ANALYSIS_FIELDS, p_value_given |-> TRUE,
     p_value |-> 1200, decision |-> "DO NOT SHIP"]

GoodExperiment ==
    [experiment_id |-> "exp_1",
     variants |-> <<[name |-> "control", users |-> 250],
                    [name |-> "treatment", users |-> 250]>>,
     analysis |-> GoodAnalysis]

ExperimentLists ==
    {<<>>,
     <<GoodExperiment>>,
     <<[GoodExperiment EXCEPT !.variants = <<>>], GoodExperiment>>,
     <<[GoodExperiment EXCEPT
          !.experiment_id = "UNKNOWN",
          !.variants = <<[name |-> "holdout", users |-> 0]>>,
          !.analysis = [given |-> TRUE, fields |-> {"p_value", "decision"},
                        p_value_given |-> TRUE, p_value |-> 15000,
                        decision |-> "MAYBE"]]>>,
     <<[GoodExperiment EXCEPT !.analysis = NoAnalysis]>>}

Datas ==
    [keys : SUBSET REQUIRED_TOP_KEYS, event_summary : Summaries,
     funnel : Funnels, experiments : ExperimentLists]

\* the orders in which a set of three keys is iterated
KeyOrders ==
    {order \in [1..3 -> REQUIRED_TOP_KEYS] :
        \A p, q \in 1..3 : p # q => order[p] # order[q]}

\* errors = validate(data)
ValidateCall ==
    /\ ~errors.returned
    /\ \E order \in KeyOrders :
          errors' = [returned |-> TRUE, list |-> Validate(data, order)]
    /\ UNCHANGED data
    /\ UNCHANGED abVars
    /\ UNCHANGED simVars

InitValidate ==
    /\ ctor = NotCalled
    /\ experiment = NoExperiment
    /\ sha = <<>>
    /\ calls = {}
    /\ config = BaseConfig
    /\ runs = [k \in Runs |-> Idle]
    /\ gapEnd = "lo"
    /\ draws = NotTraced
    /\ data \in Datas
    /\ errors = NotValidated

NextValidate == ValidateCall

SpecValidate == InitValidate /\ [][NextValidate]_vars

---------------------------------------------------------------------------
(* The callers of src/ab alone *)

InitAB ==
    /\ ctor = NotCalled
    /\ experiment = NoExperiment
    /\ sha = <<>>
    /\ calls = {}
    /\ config = BaseConfig
    /\ runs = [k \in Runs |-> Idle]
    /\ gapEnd = "lo"
    /\ draws = NotTraced
    /\ data = NoData
    /\ errors = NotValidated

NextAB == Construct \/ AssignCall

SpecAB == InitAB /\ [][NextAB]_vars

---------------------------------------------------------------------------
(* Properties of Experiment(...) and assign_variant, under SpecAB *)

RECURSIVE RealSum(_)
RealSum(variants) ==
    IF variants = <<>> THEN 0
    ELSE variants[1].weight + RealSum(Tail(variants))

HasNaN(variants) == \E i \in 1..Len(variants) : variants[i].weight = NaN

\* the weights are numbers whose sum is within 0.001 of 1.0
SumsToOne(variants) ==
    /\ ~HasNaN(variants)
    /\ RealSum(variants) >= One - Tolerance
    /\ RealSum(variants) <= One + Tolerance

NamesDistinct(variants) ==
    \A i, j \in 1..Len(variants) :
        i # j => variants[i].name # variants[j].name

\* C1: Experiment(...) succeeds if and only if the weights sum to 1.0 within
\* 0.001, there are at least 2 variants and the names are pairwise distinct;
\* otherwise it fails with an error and there is no Experiment value.
ConstructionIffValid ==
    ctor.called =>
        /\ (experiment # NoExperiment) <=>
               /\ SumsToOne(ctor.variants)
               /\ Len(ctor.variants) >= 2
               /\ NamesDistinct(ctor.variants)
        /\ (experiment = NoExperiment) <=> (ctor.raised # "")

\* C2: for a constructed Experiment and any user id, assign_variant returns
\* the name of one of the experiment's variants; it raises nothing.
AssignReturnsVariantName ==
    \A c \in calls : c.variant \in Names(experiment.variants)

\* the cumulative weight of the i-th variant exceeds the bucket
Exceeds(variants, i, bucket) ==
    LET w == SubSeq(variants, 1, i) IN
    ~HasNaN(w) /\ RealSum(w) > bucket

NoneExceeds(variants, bucket) ==
    \A i \in 1..Len(variants) : ~Exceeds(variants, i, bucket)

\* a call on the fallback path: its bucket is not below the sum of weights
FallbackCallMade ==
    \E c \in calls :
        /\ ~HasNaN(experiment.variants)
        /\ RealSum(experiment.variants) < One
        /\ NoneExceeds(experiment.variants, c.bucket)
        /\ c.variant \in Names(experiment.variants)

IsFirstExceeding(variants, name, bucket) ==
    \E i \in 1..Len(variants) :
        /\ variants[i].name = name
        /\ Exceeds(variants, i, bucket)
        /\ \A j \in 1..(i - 1) : ~Exceeds(variants, j, bucket)

\* C4 as stated: for a bucket in [0,1), assign_variant returns the first
\* variant, in declared order, whose cumulative weight is strictly greater
\* than the bucket.  (Stated of the experiments whose weights do sum to 1.0
\* within 0.001: the statement fails on these already.)
AssignFirstExceeding ==
    SumsToOne(experiment.variants) =>
        \A c \in calls :
            c.bucket < One =>
                IsFirstExceeding(experiment.variants, c.variant, c.bucket)

\* C4 as amended: for a bucket in [0,1), assign_variant returns the first
\* variant, in declared order, whose cumulative weight is strictly greater
\* than the bucket, and the last declared variant when there is none.
AssignFirstExceedingOrLast ==
    \A c \in calls :
        c.bucket < One =>
            IF NoneExceeds(experiment.variants, c.bucket)
            THEN c.variant =
                    experiment.variants[Len(experiment.variants)].name
            ELSE IsFirstExceeding(experiment.variants, c.variant, c.bucket)

\* calls on both paths: one past the first variant, one on the fallback
BothPathsCalled ==
    \E c1, c2 \in calls :
        /\ c1.bucket < One
        /\ c2.bucket < One
        /\ Len(experiment.variants) = 3
        /\ IsFirstExceeding(experiment.variants, c1.variant, c1.bucket)
        /\ c1.variant = experiment.variants[2].name
        /\ NoneExceeds(experiment.variants, c2.bucket)

---------------------------------------------------------------------------
(* Properties of generate_events, under Spec *)

Done == AllAt("done")
Output(k) == runs[k].all_events

\* every event of run k so far: those merged and those of the journey
EventsSoFar(k) == runs[k].all_events \o runs[k].events

OfType(events, event_type) ==
    {p \in 1..Len(events) : events[p].event_type = event_type}

\* the sort moved an event of the second user before one of the first
Reordered(events) ==
    \E p, q \in 1..Len(events) :
        /\ p < q
        /\ events[p].user_id = UserId(1)
        /\ events[q].user_id = UserId(0)

\* C5: two runs with the same (config, experiment, seed) return the same
\* number of events, with the same event_id, user_id, event_type and
\* properties at every position.
SameInputsSameEvents ==
    Done =>
        /\ Len(Output(1)) = Len(Output(2))
        /\ \A p \in 1..Len(Output(1)) :
              /\ Output(1)[p].event_id = Output(2)[p].event_id
              /\ Output(1)[p].user_id = Output(2)[p].user_id
              /\ Output(1)[p].event_type = Output(2)[p].event_type
              /\ Output(1)[p].properties = Output(2)[p].properties

\* two runs of two users at different wall-clock times, the sort at work
TwoRunsCompared ==
    /\ Done
    /\ runs[1].now # runs[2].now
    /\ Reordered(Output(1))
    /\ Reordered(Output(2))

WindowStart(now) == now - DaySeconds - config.days * DaySeconds

OutputSortedByTimestamp ==
    \A k \in Runs :
        runs[k].pc = "done" =>
            \A p \in 1..(Len(Output(k)) - 1) :
                Output(k)[p].timestamp <= Output(k)[p + 1].timestamp

\* a returned sequence in which the later user's events come first
SortReordered ==
    /\ runs[1].pc = "done"
    /\ Reordered(Output(1))
    /\ Output(1)[1].user_id = UserId(1)
    /\ Output(1)[Len(Output(1))].user_id = UserId(0)

\* C8: the event_ids of one run are pairwise distinct, across all users and
\* stages.
EventIdsDistinct ==
    \A k \in Runs :
        LET ev == EventsSoFar(k)
        IN Cardinality({ev[p].event_id : p \in 1..Len(ev)}) = Len(ev)

\* a finished run with two events alike in user and type and two events of
\* different users alike in type and timestamp
LookalikeEvents ==
    /\ runs[1].pc = "done"
    /\ \E p, q \in 1..Len(Output(1)) :
          /\ p # q
          /\ Output(1)[p].user_id = Output(1)[q].user_id
          /\ Output(1)[p].event_type = Output(1)[q].event_type
    /\ \E p, q \in 1..Len(Output(1)) :
          /\ Output(1)[p].user_id # Output(1)[q].user_id
          /\ Output(1)[p].event_type = Output(1)[q].event_type
          /\ Output(1)[p].timestamp = Output(1)[q].timestamp

\* C9: without an experiment no event has type EXPERIMENT_ASSIGNMENT.
NoExperimentNoAssignment ==
    experiment = NoExperiment =>
        \A k \in Runs : OfType(EventsSoFar(k), "EXPERIMENT_ASSIGNMENT") = {}

\* a finished run of two users without an experiment, one of them purchasing
RunWithoutExperiment ==
    /\ experiment = NoExperiment
    /\ runs[1].pc = "done"
    /\ config.num_users = 2
    /\ OfType(Output(1), "PURCHASE") # {}
    /\ OfType(Output(1), "CLICK") # {}

\* C10: with an experiment the output holds exactly one EXPERIMENT_ASSIGNMENT
\* event per simulated user, num_users in all with num_users distinct user
\* ids, wherever the user drops off; each carries the experiment's id and
\* the variant assign_variant gives the user.
OneAssignmentPerUser ==
    \A k \in Runs :
        (experiment # NoExperiment /\ runs[k].pc = "done") =>
            LET out == Output(k)
                A == OfType(out, "EXPERIMENT_ASSIGNMENT")
            IN /\ Cardinality(A) = config.num_users
               /\ Cardinality({out[p].user_id : p \in A}) = config.num_users
               /\ {out[p].user_id : p \in A}
                    = {UserId(i) : i \in 0..(config.num_users - 1)}
               /\ \A p \in A :
                     /\ out[p].properties.experiment_id
                          = experiment.experiment_id
                     /\ out[p].properties.variant
                          = AssignVariant(experiment, out[p].user_id, sha)

\* a finished run with an experiment: one user dropped off before signup,
\* the other purchased, and they were given different variants
AssignedAcrossDropOffs ==
    /\ experiment # NoExperiment
    /\ runs[1].pc = "done"
    /\ config.num_users = 2
    /\ Cardinality(OfType(Output(1), "SIGNUP")) = 1
    /\ Cardinality(OfType(Output(1), "PURCHASE")) = 1
    /\ \E p, q \in OfType(Output(1), "EXPERIMENT_ASSIGNMENT") :
          Output(1)[p].properties.variant # Output(1)[q].properties.variant

---------------------------------------------------------------------------
(* Properties of the journey and its gates, under SpecGates *)

\* the events of run k that belong to user_id, in the order they are held
JourneyOf(k, user_id) ==
    SelectSeq(EventsSoFar(k), LAMBDA e : e.user_id = user_id)

TypesOf(events) == [p \in 1..Len(events) |-> events[p].event_type]

\* PAGE_VIEWs, then CLICKs, then at most one EXPERIMENT_ASSIGNMENT
IsBrowsing(T) ==
    \E a, b \in 0..Len(T) :
        /\ a <= b
        /\ Len(T) - b <= 1
        /\ \A p \in 1..a : T[p] = "PAGE_VIEW"
        /\ \A p \in (a + 1)..b : T[p] = "CLICK"
        /\ \A p \in (b + 1)..Len(T) : T[p] = "EXPERIMENT_ASSIGNMENT"

\* SIGNUP, then n dashboard PAGE_VIEWs, then PURCHASE if purchased
IsFunnelTail(events, n, purchased) ==
    /\ Len(events) = 1 + n + (IF purchased THEN 1 ELSE 0)
    /\ events[1].event_type = "SIGNUP"
    /\ \A p \in 2..(n + 1) :
          /\ events[p].event_type = "PAGE_VIEW"
          /\ events[p].properties.page = "/dashboard"
    /\ purchased => events[Len(events)].event_type = "PURCHASE"

\* the shape of a journey's events: where the journey stopped, "" for none
ShapeOf(events) ==
    LET T == TypesOf(events)
        signups == {p \in 1..Len(T) : T[p] = "SIGNUP"}
        c == IF signups = {} THEN Len(T)
             ELSE (CHOOSE p \in signups : \A q \in signups : p <= q) - 1
        tail == SubSeq(events, c + 1, Len(events))
    IN IF ~IsBrowsing(SubSeq(T, 1, c)) THEN ""
       ELSE IF tail = <<>> THEN "browsed"
       ELSE IF IsFunnelTail(tail, 0, FALSE) THEN "signed up"
       ELSE IF \E n \in 2..5 : IsFunnelTail(tail, n, FALSE) THEN "onboarded"
       ELSE IF \E n \in 2..5 : IsFunnelTail(tail, n, TRUE) THEN "purchased"
       ELSE ""

\* the journey of the one user has returned
Returned(k) == runs[k].pc \in {"sort", "done"}

\* C11: every journey returns with events of one of four shapes: the
\* browsing prefix B alone, when the draw at the signup gate failed; B and
\* SIGNUP, when the draw at the onboarding gate failed; B, SIGNUP and 2 to 5
\* dashboard PAGE_VIEWs, when the draw at the purchase gate failed; the
\* latter and one PURCHASE, when no draw failed.  A journey under way holds
\* the shape of the gates it has passed, so nothing follows a failed gate.
JourneyHasOneOfFourShapes ==
    \A k \in Runs :
        LET shape == ShapeOf(JourneyOf(k, UserId(0)))
            u == draws.seq
        IN /\ runs[k].pc = "signup" => shape = "browsed" /\ u = <<>>
           /\ runs[k].pc = "onboarding" => shape = "signed up" /\ Len(u) = 1
           /\ runs[k].pc = "purchase" => shape = "onboarded" /\ Len(u) = 2
           /\ Returned(k) =>
                 /\ shape \in {"browsed", "signed up", "onboarded", "purchased"}
                 /\ shape = "browsed" <=>
                       Len(u) = 1 /\ u[1] >= config.prob_signup
                 /\ shape = "signed up" <=>
                       Len(u) = 2 /\ u[2] >= config.prob_onboarding
                 /\ shape = "onboarded" <=>
                       Len(u) = 3 /\ u[3] >= PurchaseProb(config, runs[k].variant)
                 /\ shape = "purchased" <=>
                       Len(u) = 3 /\ u[3] < PurchaseProb(config, runs[k].variant)

\* a returned journey of two page views, a click, an assignment, a signup,
\* five dashboard views and a purchase
FullJourneyReturned ==
    /\ Done
    /\ ShapeOf(Output(1)) = "purchased"
    /\ Len(Output(1)) = 11
    /\ experiment # NoExperiment

\* the variant named in the user's EXPERIMENT_ASSIGNMENT event, None if the
\* user has no such event
AssignedName(k) ==
    LET J == JourneyOf(k, UserId(0))
        A == OfType(J, "EXPERIMENT_ASSIGNMENT")
    IN IF A = {} THEN None ELSE J[CHOOSE p \in A : TRUE].properties.variant

\* prob_purchase + treatment_uplift capped at 1.0 for the variant named
\* "treatment", prob_purchase otherwise
UpliftedFor(name) ==
    IF name = "treatment"
    THEN (IF config.prob_purchase + config.treatment_uplift > One
          THEN One
          ELSE config.prob_purchase + config.treatment_uplift)
    ELSE config.prob_purchase

\* C12: the probability at the purchase gate is prob_purchase +
\* treatment_uplift capped at 1.0 when the user was assigned the variant
\* named "treatment", and prob_purchase otherwise (another variant, or no
\* experiment); the user purchases exactly when the draw is below it.
PurchaseGateUsesUplift ==
    \A k \in Runs :
        /\ runs[k].pc = "purchase" =>
              PurchaseProb(config, runs[k].variant) = UpliftedFor(AssignedName(k))
        /\ (Returned(k) /\ Len(draws.seq) = 3) =>
              /\ PurchaseProb(config, runs[k].variant)
                   = UpliftedFor(AssignedName(k))
              /\ (OfType(JourneyOf(k, UserId(0)), "PURCHASE") # {})
                   <=> draws.seq[3] < UpliftedFor(AssignedName(k))

\* a treatment user at the gate with prob_purchase + treatment_uplift beyond
\* 1.0, who purchases on the largest draw
CappedUpliftAtGate ==
    /\ Done
    /\ AssignedName(1) = "treatment"
    /\ config.prob_purchase + config.treatment_uplift > One
    /\ Len(draws.seq) = 3
    /\ draws.seq[3] = 9999
    /\ OfType(Output(1), "PURCHASE") # {}

\* the user's dashboard page views
DashboardViews(events) ==
    {p \in OfType(events, "PAGE_VIEW") : events[p].properties.page = "/dashboard"}

\* C19: each gate passes if and only if its draw is strictly below its
\* probability: the signup gate gives a SIGNUP event, the onboarding gate
\* dashboard page views and the purchase gate a PURCHASE event exactly then;
\* a draw equal to the probability fails, probability 0.0 never passes and
\* probability 1.0 always does.
GatePassesIffDrawBelow ==
    \A k \in Runs :
        LET u == draws.seq
            J == JourneyOf(k, UserId(0))
        IN /\ Len(u) >= 1 =>
                 /\ (OfType(J, "SIGNUP") # {}) <=> u[1] < config.prob_signup
                 /\ config.prob_signup = 0 => OfType(J, "SIGNUP") = {}
                 /\ config.prob_signup = One => OfType(J, "SIGNUP") # {}
           /\ Len(u) >= 2 =>
                 /\ u[1] < config.prob_signup
                 /\ (DashboardViews(J) # {}) <=> u[2] < config.prob_onboarding
                 /\ config.prob_onboarding = 0 => DashboardViews(J) = {}
                 /\ config.prob_onboarding = One => DashboardViews(J) # {}
           /\ Len(u) >= 3 =>
                 /\ u[2] < config.prob_onboarding
                 /\ (OfType(J, "PURCHASE") # {})
                      <=> u[3] < PurchaseProb(config, runs[k].variant)
                 /\ PurchaseProb(config, runs[k].variant) = 0 =>
                       OfType(J, "PURCHASE") = {}
                 /\ PurchaseProb(config, runs[k].variant) = One =>
                       OfType(J, "PURCHASE") # {}

\* a journey that passes the signup gate of probability 1.0 on the largest
\* draw and fails the onboarding gate on a draw equal to its probability
DrawEqualToProbabilityFails ==
    /\ Done
    /\ config.prob_signup = One
    /\ draws.seq = <<9999, config.prob_onboarding>>
    /\ ShapeOf(Output(1)) = "signed up"

---------------------------------------------------------------------------
(* Properties of generate_events, under Spec (continued) *)

\* the number of events of the type in the output of run k
Count(k, event_type) == Cardinality(OfType(Output(k), event_type))

\* the runs of the most users the model carries stand for the runs of 200
\* users and more
ManyUsers == MaxUsers

DefaultMaxPageViews == 8
DefaultMaxClicks == 5

\* C14: with the default browsing bounds every event has a timestamp not
\* earlier than the start of the window (run time minus one day minus
\* config.days) and strictly earlier than the wall-clock time of the run.
TimestampsInThePast ==
    \A k \in Runs :
        (/\ config.max_page_views <= DefaultMaxPageViews
         /\ config.max_clicks <= DefaultMaxClicks) =>
            LET ev == EventsSoFar(k) IN
            \A p \in 1..Len(ev) :
                /\ ev[p].timestamp >= WindowStart(runs[k].now)
                /\ ev[p].timestamp < runs[k].now

\* a user who arrives at the last second of the window, views 8 pages,
\* clicks 5 times, views 5 dashboard pages and purchases, with the largest
\* gaps: the purchase is 6520 s after the end of the window
LongestJourneyAtWindowEnd ==
    /\ Done
    /\ config = DefaultBrowsingConfig
    /\ experiment # NoExperiment
    /\ Len(Output(1)) = 21
    /\ Output(1)[1].timestamp = runs[1].now - DaySeconds
    /\ Output(1)[21].event_type = "PURCHASE"
    /\ Output(1)[21].timestamp = (runs[1].now - DaySeconds) + 6520

---------------------------------------------------------------------------
(* Properties of Experiment(...) and assign_variant, under SpecAB (continued) *)

\* C15: in every constructed Experiment each variant's weight lies between
\* 0.0 and 1.0 inclusive.  (Stated of the experiments whose weights are
\* numbers.)
WeightsAreProportions ==
    (experiment # NoExperiment /\ ~HasNaN(experiment.variants)) =>
        \A i \in 1..Len(experiment.variants) :
            /\ experiment.variants[i].weight >= 0
            /\ experiment.variants[i].weight <= One

\* C17 as stated: constructing an Experiment with fewer than 2 variants
\* fails with the at-least-2-variants error, whatever the weights.
FewVariantsRaiseCountError ==
    (ctor.called /\ Len(ctor.variants) < 2) => ctor.raised = ErrCount

\* C17 as amended: constructing an Experiment with fewer than 2 variants
\* fails: with the at-least-2-variants error when the weights supplied are
\* one weight within 0.001 of 1.0 (or one NaN weight), and with the
\* weights-must-sum-to-1.0 error otherwise, no variant at all included.
FewVariantsRaiseCountOrWeightsError ==
    (ctor.called /\ Len(ctor.variants) < 2) =>
        /\ experiment = NoExperiment
        /\ IF SumsToOne(ctor.variants) \/ HasNaN(ctor.variants)
           THEN ctor.raised = ErrCount
           ELSE ctor.raised = ErrWeights

\* one variant of weight 1.0: the at-least-2-variants error
OneFullWeightVariantRejected ==
    /\ ctor.called
    /\ Len(ctor.variants) = 1
    /\ ctor.variants[1].weight = One
    /\ ctor.raised = ErrCount

\* C18: when no variant's cumulative weight exceeds the bucket,
\* assign_variant returns the last declared variant; every bucket in
\* [sum of weights, 1) is therefore assigned to the last variant.  (Stated of
\* the experiments whose weights are numbers.)
FallbackAbsorbsRemainder ==
    ~HasNaN(experiment.variants) =>
        \A c \in calls :
            /\ NoneExceeds(experiment.variants, c.bucket) =>
                  c.variant = experiment.variants[Len(experiment.variants)].name
            /\ (RealSum(experiment.variants) <= c.bucket /\ c.bucket < One) =>
                  c.variant = experiment.variants[Len(experiment.variants)].name

\* C26: a variant whose weight is 0 is never returned by assign_variant,
\* whatever the user and the position of the variant.  (Stated of the
\* experiments whose weights are numbers and are not negative, and of the
\* buckets below 1.0.)
ZeroWeightNeverAssigned ==
    (/\ ~HasNaN(experiment.variants)
     /\ \A i \in 1..Len(experiment.variants) :
           experiment.variants[i].weight >= 0) =>
        \A c \in calls :
            c.bucket < One =>
                \A i \in 1..Len(experiment.variants) :
                    experiment.variants[i].name = c.variant =>
                        experiment.variants[i].weight # 0

---------------------------------------------------------------------------
(* Properties of validate, under SpecValidate *)

\* the positions of the funnel-monotonicity errors in what validate returned
MonotonicityErrors ==
    {j \in 1..Len(errors.list) :
        errors.list[j][1] = "Funnel not monotonically decreasing"}

\* the funnel steps that have strictly more users than the step before
IncreasingSteps(d) ==
    IF "funnel" \in d.keys
    THEN {i \in 2..Len(d.funnel) : d.funnel[i].users > d.funnel[i - 1].users}
    ELSE {}

\* C16 as stated: validate reports a funnel-monotonicity error if and only
\* if some funnel step has strictly more users than the step before it.
MonotonicityErrorIffIncrease ==
    errors.returned =>
        (MonotonicityErrors # {}) <=> (IncreasingSteps(data) # {})

\* C16 as amended: when the data has all three required top-level keys,
\* validate reports a funnel-monotonicity error if and only if some funnel
\* step has strictly more users than the step before it, one error for each
\* such step; equal counts produce none.
MonotonicityErrorIffIncreaseWithAllKeys ==
    (errors.returned /\ data.keys = REQUIRED_TOP_KEYS) =>
        /\ (MonotonicityErrors # {}) <=> (IncreasingSteps(data) # {})
        /\ Cardinality(MonotonicityErrors) = Cardinality(IncreasingSteps(data))

\* a funnel whose second step has as many users as the first and whose
\* third has more: the one error is that of the third step
EqualThenIncreasingFunnel ==
    /\ errors.returned
    /\ data.keys = REQUIRED_TOP_KEYS
    /\ Len(data.funnel) = 3
    /\ data.funnel[1].users = data.funnel[2].users
    /\ data.funnel[3].users > data.funnel[2].users
    /\ Cardinality(MonotonicityErrors) = 1

\* the seed and the position of the draw an event_id was made from
SeedOf(e) == e.event_id[2][1]
DrawOf(e) == e.event_id[2][2]

\* the ids of the users by index
UserIds == [i \in 0..MaxUsers |-> UserId(i)]

\* the index i of the user named user_id in the table ids
IndexOfUser(ids, user_id) == CHOOSE i \in DOMAIN ids : ids[i] = user_id

\* C20: one stream, seeded once from config.seed, is consumed sequentially:
\* in the events as generated (before the sort) the users appear in index
\* order 0 .. num_users - 1, every event is made from a draw of the stream of
\* config.seed, the draws of the events advance strictly from each event to
\* the next, so those of user i all come before those of user i + 1, and the
\* stream stands beyond them all.
OneStreamConsumedInOrder ==
    \A k \in Runs :
        runs[k].pc \notin {"start", "done"} =>
            LET ev == EventsSoFar(k)
                ids == UserIds
            IN
            /\ runs[k].rng.seed = config.seed
            /\ \A p \in 1..Len(ev) :
                  /\ SeedOf(ev[p]) = config.seed
                  /\ DrawOf(ev[p]) < runs[k].rng.pos
                  /\ IndexOfUser(ids, ev[p].user_id) <= runs[k].i
            /\ \A p \in 1..(Len(ev) - 1) :
                  /\ DrawOf(ev[p]) < DrawOf(ev[p + 1])
                  /\ IndexOfUser(ids, ev[p].user_id)
                       <= IndexOfUser(ids, ev[p + 1].user_id)

\* two users simulated, the sort not yet made: the second user's first
\* event is made from a draw after the one of the first user's last event
SecondUserDrawsAfterFirst ==
    /\ AllAt("sort")
    /\ config.num_users = 2
    /\ \E p \in 1..(Len(EventsSoFar(1)) - 1) :
          /\ EventsSoFar(1)[p].user_id = UserId(0)
          /\ EventsSoFar(1)[p].event_type = "PURCHASE"
          /\ EventsSoFar(1)[p + 1].user_id = UserId(1)
          /\ DrawOf(EventsSoFar(1)[p + 1]) > DrawOf(EventsSoFar(1)[p])

\* C21: the final sort is stable: events with equal timestamps appear in the
\* output in the order they were generated in (the order of their draws):
\* the event of the lower-indexed user first and, for one user, the event
\* emitted earlier first.
SortIsStable ==
    \A k \in Runs :
        runs[k].pc = "done" =>
            LET out == Output(k)
                ids == UserIds
            IN \A p \in 1..(Len(out) - 1) :
                  out[p].timestamp = out[p + 1].timestamp =>
                      /\ DrawOf(out[p]) < DrawOf(out[p + 1])
                      /\ IndexOfUser(ids, out[p].user_id)
                           <= IndexOfUser(ids, out[p + 1].user_id)

\* an output in which events of both users have the same timestamp, and one
\* in which the event of the second user comes first
EqualTimestampsAcrossUsers ==
    /\ Done
    /\ \E p \in 1..(Len(Output(1)) - 1) :
          /\ Output(1)[p].timestamp = Output(1)[p + 1].timestamp
          /\ Output(1)[p].user_id = UserId(0)
          /\ Output(1)[p + 1].user_id = UserId(1)
    /\ \E p \in 1..(Len(Output(1)) - 1) :
          /\ Output(1)[p].timestamp < Output(1)[p + 1].timestamp
          /\ Output(1)[p].user_id = UserId(1)
          /\ Output(1)[p + 1].user_id = UserId(0)

\* the last event of the journey of run r
LastEvent(r) == r.events[Len(r.events)]

\* C22: no step of generate_events, of a journey or of assign_variant
\* changes the Experiment or the SimulationConfig, and assign_variant takes
\* no draw: over the assignment the stream advances by the two draws of the
\* gap and of the event id, which is made from the draw right after the one
\* the stream stood at before the call; without an experiment it stands still.
InputsAndStreamUntouched ==
    [][/\ experiment' = experiment
       /\ config' = config
       /\ \A k \in Runs :
             runs[k].pc = "assign" =>
                 IF experiment = NoExperiment
                 THEN /\ runs'[k].rng = runs[k].rng
                      /\ runs'[k].events = runs[k].events
                 ELSE /\ runs'[k].rng = [runs[k].rng EXCEPT !.pos = @ + 2]
                      /\ Len(runs'[k].events) = Len(runs[k].events) + 1
                      /\ DrawOf(LastEvent(runs'[k])) = runs[k].rng.pos + 1]_vars

\* a journey past its assignment with an experiment in use
AssignedFromStream ==
    /\ experiment = PRICING_PAGE_EXPERIMENT
    /\ AllAt("signup")
    /\ runs[1].i = 1
    /\ LastEvent(runs[1]).event_type = "EXPERIMENT_ASSIGNMENT"
    /\ DrawOf(LastEvent(runs[1])) = runs[1].rng.pos - 1

\* the timestamps of the events rise strictly from each event to the next
StrictlyLater(events) ==
    \A p \in 1..(Len(events) - 1) :
        events[p].timestamp < events[p + 1].timestamp

\* the events are in the order they were emitted in
InEmissionOrder(events) ==
    \A p \in 1..(Len(events) - 1) : DrawOf(events[p]) < DrawOf(events[p + 1])

\* C24: within a journey the timestamps rise strictly in emission order, so
\* in the sorted output each user's events are still in emission order,
\* which is the funnel order: browsing PAGE_VIEWs, CLICKs,
\* EXPERIMENT_ASSIGNMENT, SIGNUP, dashboard PAGE_VIEWs, PURCHASE.
JourneyOrderSurvivesSort ==
    \A k \in Runs :
        /\ StrictlyLater(runs[k].events)
        /\ runs[k].pc = "done" =>
              \A i \in 0..(config.num_users - 1) :
                  LET J == JourneyOf(k, UserId(i)) IN
                  /\ StrictlyLater(J)
                  /\ InEmissionOrder(J)
                  /\ ShapeOf(J) # ""

\* an output in which the events of the two users interleave and the first
\* user went through the whole funnel
InterleavedJourneys ==
    /\ Done
    /\ config.num_users = 2
    /\ ShapeOf(JourneyOf(1, UserId(0))) = "purchased"
    /\ \E p, q, r \in 1..Len(Output(1)) :
          /\ p < q /\ q < r
          /\ Output(1)[p].user_id = UserId(0)
          /\ Output(1)[q].user_id = UserId(1)
          /\ Output(1)[r].user_id = UserId(0)

\* the '/dashboard' PAGE_VIEWs of J strictly between the timestamps lo and hi
DashboardViewsBetween(J, lo, hi) ==
    {p \in DashboardViews(J) : lo < J[p].timestamp /\ J[p].timestamp < hi}

\* C25: in every output each user has at most one SIGNUP and at most one
\* PURCHASE event, and a user with a PURCHASE event has a SIGNUP event of a
\* strictly earlier timestamp and between 2 and 5 '/dashboard' PAGE_VIEW
\* events between the two; so the purchasers are among the users signed up.
PurchaseFollowsSignupAndDashboard ==
    \A k \in Runs :
        runs[k].pc = "done" =>
            \A i \in 0..(config.num_users - 1) :
                LET J == JourneyOf(k, UserId(i))
                    S == OfType(J, "SIGNUP")
                    P == OfType(J, "PURCHASE")
                IN /\ Cardinality(S) <= 1
                   /\ Cardinality(P) <= 1
                   /\ P # {} =>
                         /\ S # {}
                         /\ \A s \in S, p \in P :
                               /\ J[s].timestamp < J[p].timestamp
                               /\ Cardinality(DashboardViewsBetween(
                                      J, J[s].timestamp, J[p].timestamp))
                                    \in 2..5

\* an output of two purchasers, one with 2 and one with 5 dashboard views
PurchasersWithFewAndManyViews ==
    /\ Done
    /\ config.num_users = 2
    /\ Count(1, "PURCHASE") = 2
    /\ Cardinality(DashboardViews(JourneyOf(1, UserId(0)))) = 2
    /\ Cardinality(DashboardViews(JourneyOf(1, UserId(1)))) = 5

---------------------------------------------------------------------------
(* Properties of validate, under SpecValidate (continued) *)

\* the required top-level keys the data lacks
MissingKeys(d) == REQUIRED_TOP_KEYS \ d.keys

\* C23: if a required top-level key is missing, validate returns exactly
\* one 'Missing top-level key' error per missing key and nothing else: no
\* check is run on the keys that are present.
MissingKeysOnlyErrors ==
    (errors.returned /\ MissingKeys(data) # {}) =>
        /\ Len(errors.list) = Cardinality(MissingKeys(data))
        /\ \A j \in 1..Len(errors.list) :
              /\ errors.list[j][1] = "Missing top-level key"
              /\ errors.list[j][2] \in MissingKeys(data)
        /\ \A key \in MissingKeys(data) :
              \E j \in 1..Len(errors.list) : errors.list[j][2] = key

\* data without its experiments and its event summary, whose funnel is
\* there, has an increasing step, a wrong step and an invalid rate: two errors
TwoKeysMissingBadFunnel ==
    /\ errors.returned
    /\ data.keys = {"funnel"}
    /\ FunnelErrors(data.funnel) # <<>>
    /\ IncreasingSteps(data) # {}
    /\ Len(errors.list) = 2

====
